---------------------------- MODULE Spec2Model ----------------------------
(* A model of the MMW26 event tracker (server.js): the listing parser, the  *)
(* price normaliser and the refresh pipeline with its boot/cron trigger.    *)
(* Text is modelled as a sequence of one-character strings so that the      *)
(* regular expressions and slices of the source are computed, not assumed.  *)
EXTENDS Integers, Sequences, FiniteSets, TLC

\* ------------------------------------------------------------------ text

SetMin(S) == CHOOSE x \in S : \A y \in S : x <= y
SetMax(S) == CHOOSE x \in S : \A y \in S : x >= y

DigitChars == <<"0","1","2","3","4","5","6","7","8","9">>
IsDigit(c) == \E d \in 1..10 : DigitChars[d] = c
DigitVal(c) == (CHOOSE d \in 1..10 : DigitChars[d] = c) - 1
IsSpace(c) == c \in {" ", "\t", "\n"}

UpperChars == <<"A","B","C","D","E","F","G","H","I","J","K","L","M","N","O","P","Q","R","S","T","U","V","W","X","Y","Z">>
LowerChars == <<"a","b","c","d","e","f","g","h","i","j","k","l","m","n","o","p","q","r","s","t","u","v","w","x","y","z">>

\* String.prototype.toLowerCase, one character
LowerChar(c) ==
  IF \E k \in 1..26 : UpperChars[k] = c
  THEN LowerChars[CHOOSE k \in 1..26 : UpperChars[k] = c]
  ELSE c

toLowerCase(s) == [i \in 1..Len(s) |-> LowerChar(s[i])]

\* String.prototype.trim
trim(s) ==
  LET keep == {i \in 1..Len(s) : ~IsSpace(s[i])}
  IN  IF keep = {} THEN <<>> ELSE SubSeq(s, SetMin(keep), SetMax(keep))

\* pat occurs in s at (1-based) position p
OccursAt(s, p, pat) ==
  /\ p >= 1
  /\ p + Len(pat) - 1 <= Len(s)
  /\ SubSeq(s, p, p + Len(pat) - 1) = pat

\* String.prototype.lastIndexOf, in place of indexOf
lastIndexOf(s, pat) ==
  LET hits == {p \in 1..Len(s) : OccursAt(s, p, pat)}
  IN  IF hits = {} THEN 0 ELSE SetMax(hits)

\* String.prototype.indexOf, 1-based; 0 when pat does not occur (JS: -1)
indexOf(s, pat) ==
  LET hits == {p \in 1..Len(s) : OccursAt(s, p, pat)}
  IN  IF hits = {} THEN 0 ELSE SetMin(hits)

\* length of the run of digits (\d+) / whitespace (\s*) that starts at p
DigitRun(s, p) ==
  LET stops == {q \in p..Len(s) : ~IsDigit(s[q])}
  IN  IF p > Len(s) THEN 0
      ELSE IF stops = {} THEN Len(s) - p + 1 ELSE SetMin(stops) - p

SpaceRun(s, p) ==
  LET stops == {q \in p..Len(s) : ~IsSpace(s[q])}
  IN  IF p > Len(s) THEN 0
      ELSE IF stops = {} THEN Len(s) - p + 1 ELSE SetMin(stops) - p

\* parseInt of a run of decimal digits
RECURSIVE parseInt(_)
parseInt(ds) ==
  IF ds = <<>> THEN 0
  ELSE parseInt(SubSeq(ds, 1, Len(ds) - 1)) * 10 + DigitVal(ds[Len(ds)])

\* String(n).padStart(2, '0') for 0 <= n <= 99
padStart2(n) == <<DigitChars[(n \div 10) + 1], DigitChars[(n % 10) + 1]>>

\* String.prototype.split on a one-character separator
RECURSIVE split(_, _)
split(s, sep) ==
  LET hits == {p \in 1..Len(s) : s[p] = sep}
  IN  IF hits = {} THEN <<s>>
      ELSE <<SubSeq(s, 1, SetMin(hits) - 1)>>
           \o split(SubSeq(s, SetMin(hits) + 1, Len(s)), sep)

RECURSIVE SelectNonEmpty(_)
SelectNonEmpty(ss) ==
  IF ss = <<>> THEN <<>>
  ELSE (IF Head(ss) = <<>> THEN <<>> ELSE <<Head(ss)>>) \o SelectNonEmpty(Tail(ss))

\* ---------------------------------------------------------- date window

MonthNames ==
  << <<"J","a","n">>, <<"F","e","b">>, <<"M","a","r">>, <<"A","p","r">>,
     <<"M","a","y">>, <<"J","u","n">>, <<"J","u","l">>, <<"A","u","g">>,
     <<"S","e","p">>, <<"O","c","t">>, <<"N","o","v">>, <<"D","e","c">> >>

\* MONTH_MAP: the 0-based month index of a month name
MONTH_MAP(name) == (CHOOSE m \in 1..12 : MonthNames[m] = name) - 1

\* days of 2026 before the first of each month (2026 is not a leap year)
DaysBefore == <<0, 31, 59, 90, 120, 151, 181, 212, 243, 273, 304, 334>>

\* new Date(2026, month, day) as a day count from 2025-12-31; the Date
\* constructor carries an out-of-range day over into the neighbouring months,
\* which on a day count is plain addition.
DateOf(month, day) == DaysBefore[month + 1] + day

RANGE_START == DateOf(2, 18)
RANGE_END == DateOf(3, 1)

\* Date.prototype.getMonth / getDate for a day count inside 2026
getMonth(date) == SetMax({m \in 0..11 : DaysBefore[m + 1] < date})
getDate(date) == date - DaysBefore[getMonth(date) + 1]

\* ------------------------------------------------------- listing parser

\* dateCell.match(/(Jan|...|Dec)\s+(\d+)/): the leftmost month name that is
\* followed by whitespace and digits; `at` is 0 when there is no match.
DateMatchAt(s, p) ==
  /\ \E m \in 1..12 : OccursAt(s, p, MonthNames[m])
  /\ SpaceRun(s, p + 3) >= 1
  /\ DigitRun(s, p + 3 + SpaceRun(s, p + 3)) >= 1

dateMatch(s) ==
  LET hits == {p \in 1..Len(s) : DateMatchAt(s, p)}
      p == SetMin(hits)
      d == p + 3 + SpaceRun(s, p + 3)
  IN  IF hits = {} THEN [at |-> 0, month |-> <<>>, day |-> <<>>]
      ELSE [at |-> p, month |-> SubSeq(s, p, p + 2),
            day |-> SubSeq(s, d, d + DigitRun(s, d) - 1)]

\* dateCell.match(/\(([^)]+)\)/): the leftmost "(" that has at least one
\* character before the next ")"; the text between them, or '' without a match.
ParenMatchAt(s, p) ==
  /\ s[p] = "("
  /\ \E q \in (p + 2)..Len(s) : s[q] = ")" /\ \A r \in (p + 1)..(q - 1) : s[r] # ")"

timeRawOf(dateCell) ==
  LET hits == {p \in 1..Len(dateCell) : ParenMatchAt(dateCell, p)}
      p == SetMin(hits)
      q == SetMin({r \in (p + 1)..Len(dateCell) : dateCell[r] = ")"})
  IN  IF hits = {} THEN <<>> ELSE SubSeq(dateCell, p + 1, q - 1)

\* timeRaw.match(/^(\d+)(?::(\d+))?(am|pm)/i): hour digits, optional minutes,
\* then the meridiem, all anchored at the start of the text.
IsMeridiem(s, p) ==
  /\ p + 1 <= Len(s)
  /\ toLowerCase(SubSeq(s, p, p + 1)) \in {<<"a","m">>, <<"p","m">>}

startMatch(timeRaw) ==
  LET h == DigitRun(timeRaw, 1)
      m == IF h + 1 <= Len(timeRaw) /\ timeRaw[h + 1] = ":"
           THEN DigitRun(timeRaw, h + 2) ELSE 0
      mer == IF m >= 1 /\ IsMeridiem(timeRaw, h + 2 + m) THEN h + 2 + m
             ELSE IF IsMeridiem(timeRaw, h + 1) THEN h + 1
             ELSE 0
  IN  IF h = 0 \/ mer = 0 THEN [ok |-> FALSE, hour |-> <<>>, meridiem |-> <<>>]
      ELSE [ok |-> TRUE, hour |-> SubSeq(timeRaw, 1, h),
            meridiem |-> toLowerCase(SubSeq(timeRaw, mer, mer + 1))]

\* startHourOf, had it stopped at the 24-hour clock
startHourOnClock(timeRaw) ==
  LET sm == startMatch(timeRaw)
      h0 == parseInt(sm.hour)
      h1 == IF sm.meridiem = <<"p","m">> /\ h0 # 12 THEN h0 + 12 ELSE h0
      h2 == IF sm.meridiem = <<"a","m">> /\ h1 = 12 THEN 0 ELSE h1
  IN  IF sm.ok THEN h2 ELSE 0

\* startHourOf, had the after-hours test been the 2am-6am of its comment
startHourAsCommented(timeRaw) ==
  LET sm == startMatch(timeRaw)
      h0 == parseInt(sm.hour)
      h1 == IF sm.meridiem = <<"p","m">> /\ h0 # 12 THEN h0 + 12 ELSE h0
      h2 == IF sm.meridiem = <<"a","m">> /\ h1 = 12 THEN 0 ELSE h1
      h3 == IF sm.meridiem = <<"a","m">> /\ h2 >= 2 /\ h2 <= 6 THEN h2 + 24 ELSE h2
  IN  IF sm.ok THEN h3 ELSE 0

\* the three sequential ifs of the startHour computation
startHourOf(timeRaw) ==
  LET sm == startMatch(timeRaw)
      h0 == parseInt(sm.hour)
      h1 == IF sm.meridiem = <<"p","m">> /\ h0 # 12 THEN h0 + 12 ELSE h0
      h2 == IF sm.meridiem = <<"a","m">> /\ h1 = 12 THEN 0 ELSE h1
      h3 == IF sm.meridiem = <<"a","m">> /\ h2 >= 1 /\ h2 <= 6 THEN h2 + 24 ELSE h2
  IN  IF sm.ok THEN h3 ELSE 0

\* venuePart.match(/^(.+?)\s*\(([^)]+)\)\s*(.*)/): the shortest non-empty
\* venue (no newline in it) after which optional whitespace, a parenthesised
\* non-empty area and the rest of the line follow.
VenueAreaAt(s, k) ==
  LET q == k + 1 + SpaceRun(s, k + 1)
  IN  /\ \A i \in 1..k : s[i] # "\n"
      /\ q <= Len(s)
      /\ ParenMatchAt(s, q)

venueAreaMatch(s) ==
  LET hits == {k \in 1..Len(s) : VenueAreaAt(s, k)}
      k == SetMin(hits)
      q == k + 1 + SpaceRun(s, k + 1)
      r == SetMin({x \in (q + 1)..Len(s) : s[x] = ")"})
      g == r + 1 + SpaceRun(s, r + 1)
      nl == {x \in g..Len(s) : s[x] = "\n"}
      e == IF nl = {} THEN Len(s) ELSE SetMin(nl) - 1
  IN  IF hits = {} THEN [ok |-> FALSE, venue |-> <<>>, area |-> <<>>, rest |-> <<>>]
      ELSE [ok |-> TRUE, venue |-> SubSeq(s, 1, k),
            area |-> SubSeq(s, q + 1, r - 1), rest |-> SubSeq(s, g, e)]

\* genreStr.split(',').map(g => g.trim().toLowerCase()).filter(Boolean)
genresOf(genreStr) ==
  LET parts == split(genreStr, ",")
  IN  IF genreStr = <<>> THEN <<>>
      ELSE SelectNonEmpty([i \in 1..Len(parts) |-> toLowerCase(trim(parts[i]))])

TBA == <<"T","B","A">>
At == <<" ","@"," ">>

\* One table row is the text of its <td> cells and the href of the first
\* link of the second cell ('' when it has none).  RowKept is the three
\* early returns of the row callback; parseRow builds the pushed record.
\* RowKept, had the end of the window been left outside it
RowKeptBeforeEnd(row) ==
  /\ Len(row.cells) >= 4
  /\ dateMatch(trim(row.cells[1])).at # 0
  /\ LET dm == dateMatch(trim(row.cells[1]))
         eventDate == DateOf(MONTH_MAP(dm.month), parseInt(dm.day))
     IN  ~(eventDate < RANGE_START \/ eventDate >= RANGE_END)

RowKept(row) ==
  /\ Len(row.cells) >= 4
  /\ dateMatch(trim(row.cells[1])).at # 0
  /\ LET dm == dateMatch(trim(row.cells[1]))
         eventDate == DateOf(MONTH_MAP(dm.month), parseInt(dm.day))
     IN  ~(eventDate < RANGE_START \/ eventDate > RANGE_END)

parseRow(row) ==
  LET dateCell == trim(row.cells[1])
      dm == dateMatch(dateCell)
      eventDate == DateOf(MONTH_MAP(dm.month), parseInt(dm.day))
      dayKey == <<"2","0","2","6","-">> \o padStart2(getMonth(eventDate) + 1)
                \o <<"-">> \o padStart2(getDate(eventDate))
      timeRaw == timeRawOf(dateCell)
      eventCell == trim(row.cells[2])
      atIdx == indexOf(eventCell, At)
      titlePart == IF atIdx > 0 THEN trim(SubSeq(eventCell, 1, atIdx - 1)) ELSE eventCell
      venuePart == IF atIdx > 0 THEN SubSeq(eventCell, atIdx + 3, Len(eventCell)) ELSE <<>>
      vam == venueAreaMatch(venuePart)
      age == trim(row.cells[4])
  IN  [day |-> dayKey,
       titlePart |-> titlePart,
       venue |-> IF vam.ok THEN trim(vam.venue) ELSE trim(venuePart),
       area |-> IF vam.ok THEN trim(vam.area) ELSE <<>>,
       genres |-> IF vam.ok THEN genresOf(trim(vam.rest)) ELSE <<>>,
       priceStr |-> trim(row.cells[3]),
       age |-> IF age = <<>> THEN TBA ELSE age,
       timeRaw |-> timeRaw,
       startHour |-> startHourOf(timeRaw),
       link |-> row.href]

RECURSIVE parseEvents(_)
parseEvents(html) ==
  IF html = <<>> THEN <<>>
  ELSE (IF RowKept(Head(html)) THEN <<parseRow(Head(html))>> ELSE <<>>)
       \o parseEvents(Tail(html))

\* --------------------------------------------------------- price

Free == <<"f","r","e","e">>

\* /free/i.test(str)
HasFree(str) == indexOf(toLowerCase(str), Free) # 0

\* str.match(/\$(\d+)/): the leftmost "$" that a digit follows
DollarAt(str, p) == str[p] = "$" /\ DigitRun(str, p + 1) >= 1

\* parsePrice, had it taken the last "$" amount of the text
parsePriceLast(str) ==
  LET hits == {p \in 1..Len(str) : DollarAt(str, p)}
      p == SetMax(hits)
  IN  IF str = <<>> \/ HasFree(str) THEN 0
      ELSE IF hits = {} THEN 0
      ELSE parseInt(SubSeq(str, p + 1, p + DigitRun(str, p + 1)))

parsePrice(str) ==
  LET hits == {p \in 1..Len(str) : DollarAt(str, p)}
      p == SetMin(hits)
  IN  IF str = <<>> \/ HasFree(str) THEN 0
      ELSE IF hits = {} THEN 0
      ELSE parseInt(SubSeq(str, p + 1, p + DigitRun(str, p + 1)))

\* ------------------------------------------------------- JSON values

\* A JavaScript value as the merge sees it: undefined, null, a string, a
\* number, an object with the three enrichment properties (an absent
\* property reads as undefined) or an array.
Undefined == [k |-> "undefined"]
JNull == [k |-> "null"]
JStr(s) == [k |-> "string", s |-> s]
JNum(n) == [k |-> "number", n |-> n]
JObj(name, artists, type) ==
  [k |-> "object", name |-> name, artists |-> artists, type |-> type]
JArr(items) == [k |-> "array", items |-> items]

\* ToBoolean
Truthy(v) ==
  CASE v.k = "undefined" -> FALSE
    [] v.k = "null" -> FALSE
    [] v.k = "string" -> v.s # <<>>
    [] v.k = "number" -> v.n # 0
    [] OTHER -> TRUE

\* a || b
OrElse(a, b) == IF Truthy(a) THEN a ELSE b

\* enriched[i] with a 0-based i, for an enriched that is neither null nor
\* undefined (those throw a TypeError, see IndexThrows)
Index(enriched, i) ==
  CASE enriched.k = "array" ->
         IF i < Len(enriched.items) THEN enriched.items[i + 1] ELSE Undefined
    [] enriched.k = "string" ->
         IF i < Len(enriched.s) THEN JStr(<<enriched.s[i + 1]>>) ELSE Undefined
    [] OTHER -> Undefined

IndexThrows(enriched) == enriched.k \in {"null", "undefined"}

\* item?.field for field in name, artists, type
OptField(item, field) == IF item.k = "object" THEN item[field] ELSE Undefined

\* ------------------------------------------------------------- merge

night == <<"n","i","g","h","t">>

\* the object literal of rawEvents.map((raw, i) => ...)
mergeOne(raw, item) ==
  [day |-> raw.day,
   name |-> OrElse(OptField(item, "name"), JStr(raw.titlePart)),
   artists |-> OrElse(OptField(item, "artists"), JStr(<<>>)),
   venue |-> raw.venue,
   area |-> raw.area,
   startHour |-> raw.startHour,
   timeDisplay |-> raw.timeRaw,
   type |-> OrElse(OptField(item, "type"), JStr(night)),
   genres |-> raw.genres,
   priceRaw |-> parsePrice(raw.priceStr),
   priceDisplay |-> IF raw.priceStr = <<>> THEN TBA ELSE raw.priceStr,
   age |-> raw.age,
   link |-> raw.link]

\* merge, had it paired record i with the item after it
mergeShifted(rawEvents, enriched) ==
  [i \in 1..Len(rawEvents) |-> mergeOne(rawEvents[i], Index(enriched, i))]

merge(rawEvents, enriched) ==
  [i \in 1..Len(rawEvents) |-> mergeOne(rawEvents[i], Index(enriched, i - 1))]

\* ------------------------------------------------- enrichWithClaude

\* The text of the reply is a sequence of lexical pieces: a code fence, the
\* text of one well-formed JSON value, or prose that is not JSON.
Fence == [t |-> "fence"]
Prose == [t |-> "prose"]
JsonText(v) == [json |-> v]

\* text.replace(/^```(?:json)?\s*\n?/, '').replace(/\n?```\s*$/, '')
stripFences(text) ==
  LET a == IF text # <<>> /\ Head(text) = Fence THEN Tail(text) ELSE text
  IN  IF a # <<>> /\ a[Len(a)] = Fence THEN SubSeq(a, 1, Len(a) - 1) ELSE a

\* JSON.parse: succeeds on exactly one well-formed value
JSONparseOk(text) == Len(text) = 1 /\ DOMAIN text[1] = {"json"}
JSONparse(text) == text[1].json

\* The reply of client.messages.create: a rejection (network error, non-2xx),
\* or a message whose content is a list of text blocks.
ApiError == [kind |-> "error"]
Message(content) == [kind |-> "message", content |-> content]

\* enrichWithClaude throws: the call rejects, response.content[0] is
\* missing, or JSON.parse rejects the stripped text.
enrichThrows(reply) ==
  IF reply.kind = "error" THEN TRUE
  ELSE IF reply.content = <<>> THEN TRUE
  ELSE ~JSONparseOk(stripFences(reply.content[1]))

enrichValue(reply) == JSONparse(stripFences(reply.content[1]))

\* ------------------------------------------------------------ inputs

MaxCycles == 3

Cycles == 1..MaxCycles

\* rows of the source page: the text of the cells and the first link
RowA ==
  [cells |-> << <<"F","r","i",":"," ","M","a","r"," ","2","7"," ","(","1","0","p","m","-","5","a","m",")">>,
                <<"B","a","s","s"," ","C","h","u","r","c","h"," ","@"," ","T","o","e"," ","J","a","m"," ","(","M","i","a","m","i",")"," ","t","e","c","h"," ","h","o","u","s","e",","," ","b","a","s","s">>,
                <<"$","2","0">>, <<"2","1","+">> >>,
   href |-> <<"/","a">>]
RowB ==
  [cells |-> << <<" ","W","e","d",":"," ","A","p","r"," ","1"," ">>, <<"S","o","l","o"," ","S","h","o","w">>, <<>>, <<" ">> >>,
   href |-> <<>>]
RowOut ==
  [cells |-> << <<"T","h","u",":"," ","A","p","r"," ","2"," ","(","9","p","m","-","2","a","m",")">>, <<"L","a","t","e"," ","@"," ","C","l","u","b"," ","(","M","i","a","m","i",")"," ","h","o","u","s","e">>,
                <<"F","r","e","e">>, <<"2","1","+">> >>,
   href |-> <<"/","o">>]
RowShort ==
  [cells |-> << <<"F","r","i",":"," ","M","a","r"," ","2","7">>, <<"H","e","a","d","e","r">>, <<"x">> >>, href |-> <<>>]

\* bodies a GET of SOURCE_URL can carry
HtmlSamples ==
  { <<>>,
    <<RowOut, RowShort>>,
    <<RowShort, RowA>>,
    <<RowA, RowOut, RowB>> }

\* what fetch resolves to: res.ok and the body res.text() yields
Responses == [ok : BOOLEAN, body : HtmlSamples]

\* parseEvents on each of the bodies, computed once
Parsed == [html \in HtmlSamples |-> parseEvents(html)]

ItemGood == JObj(JStr(<<"B","a","s","s">>), JStr(<<"D","J"," ","A">>), JStr(<<"o","u","t","d","o","o","r">>))
ItemSolo == JObj(JStr(<<"S","o","l","o">>), JStr(<<>>), JStr(<<"c","r","u","i","s","e">>))
ItemBadType == JObj(JStr(<<"B","a","s","s">>), JStr(<<"D","J"," ","A">>), JStr(<<"r","a","v","e">>))
ItemNoName == JObj(Undefined, JStr(<<"D","J"," ","B">>), JStr(<<"p","o","o","l">>))
ItemNumName == JObj(JNum(42), JStr(<<"D","J"," ","A">>), Undefined)

\* values the reply text can parse to
JsonSamples ==
  { JArr(<<ItemGood, ItemSolo>>),
    JArr(<<ItemSolo>>),
    JArr(<<ItemGood, ItemSolo, ItemGood>>),
    JArr(<<ItemBadType, ItemGood>>),
    JArr(<<ItemNoName, JNull>>),
    JArr(<<ItemNumName>>),
    JObj(Undefined, Undefined, Undefined),
    JNull }

\* replies of the enrichment call
ReplySamples ==
  {ApiError, Message(<<>>)}
  \cup {Message(<<<<JsonText(v)>>>>) : v \in JsonSamples}
  \cup {Message(<<<<Fence, JsonText(JArr(<<ItemGood, ItemSolo>>)), Fence>>>>),
        Message(<<<<Prose, JsonText(JArr(<<ItemGood, ItemSolo>>))>>>>),
        Message(<<<<Fence>>>>)}

\* ------------------------------------------------------------- state

VARIABLES
  pc,             \* pc[c]: where refresh call c is, or how it ended
  rawEvents,      \* rawEvents[c]: refresh's local, once parsed
  resOk,          \* resOk[c]: res.ok of the response refresh call c got
  started,        \* number of refresh calls made so far
  now,            \* the clock, in cron periods
  cronScheduled,  \* cron.schedule has been called
  proc,           \* "running" or "crashed"
  disk,           \* events.json: whether it exists, and its content
  wbuf,           \* the writeFileSync in progress: what it writes, made from what
  reader,         \* a GET /events.json being served by express.static
  served,         \* the body of the last response to GET /events.json
  seed,           \* the seed script's run: its position, locals and output
  arg,            \* the input of a single call of a parser function
  result          \* what that call returned, once it has

vars ==
  <<pc, rawEvents, resOk, started, now, cronScheduled, proc, disk, wbuf,
    reader, served, seed, arg, result>>

readerVars == <<reader, served>>

\* the server's own state
serverVars ==
  <<pc, rawEvents, resOk, started, now, cronScheduled, proc, disk, wbuf,
    reader, served>>

\* what is outside the server: the seed script and the single calls
offlineVars == <<seed, arg, result>>

None == [k |-> "none"]

InFlight == {"fetch", "enrich", "write"}
Ended == {"fetchFailed", "noEvents", "enrichFailed", "written", "threw"}

\* JSON.stringify({ updatedAt, events }, null, 2), piece by piece
Serialize(updatedAt, events) ==
  <<[t |-> "{"], [updatedAt |-> updatedAt]>>
  \o [i \in 1..Len(events) |-> [event |-> events[i]]]
  \o <<[t |-> "}"]>>

\* JavaScript runs one callback at a time: nothing else runs inside the
\* synchronous writeFileSync
Writing == \E c \in Cycles : pc[c] = "write"

\* the server before its boot callback has run
ServerInit ==
  /\ pc = [c \in Cycles |-> "idle"]
  /\ rawEvents = [c \in Cycles |-> <<>>]
  /\ resOk = [c \in Cycles |-> TRUE]
  /\ started = 0
  /\ now = 0
  /\ cronScheduled = FALSE
  /\ proc = "running"
  /\ disk = [exists |-> FALSE, bytes |-> <<>>]
  /\ wbuf = None
  /\ reader = [pc |-> "idle", size |-> 0]
  /\ served = None

Init ==
  /\ ServerInit
  /\ seed = None
  /\ arg = None
  /\ result = None

\* --------------------------------------------------- refresh pipeline

\* `await refresh(); cron.schedule('*/5 * * * *', refresh)`: call 1 is the
\* startup call, and the boot callback schedules the cron job when it returns
Returns(c) == cronScheduled' = (cronScheduled \/ c = 1)

\* the locals of a call that is over
Drop(c) ==
  /\ rawEvents' = [rawEvents EXCEPT ![c] = <<>>]
  /\ resOk' = [resOk EXCEPT ![c] = TRUE]

\* app.listen's callback: the startup call runs up to its first await
Boot ==
  /\ proc = "running"
  /\ started = 0
  /\ started' = 1
  /\ pc' = [pc EXCEPT ![1] = "fetch"]
  /\ UNCHANGED <<rawEvents, resOk, now, cronScheduled, proc, disk, wbuf>>
  /\ UNCHANGED readerVars
  /\ UNCHANGED offlineVars

\* a cron tick calls refresh, whatever earlier calls are doing
CronTick ==
  /\ proc = "running"
  /\ ~Writing
  /\ cronScheduled
  /\ started < MaxCycles
  /\ started' = started + 1
  /\ now' = now + 1
  /\ pc' = [pc EXCEPT ![started + 1] = "fetch"]
  /\ UNCHANGED <<rawEvents, resOk, cronScheduled, proc, disk, wbuf>>
  /\ UNCHANGED readerVars
  /\ UNCHANGED offlineVars

\* FetchCatch, had the catch block written an empty batch over the artifact
FetchCatchOverwrites(c) ==
  /\ pc' = [pc EXCEPT ![c] = "fetchFailed"]
  /\ disk' = [exists |-> TRUE, bytes |-> Serialize(now, <<>>)]
  /\ UNCHANGED <<rawEvents, resOk, wbuf>>

\* FetchCatch, had the catch block logged and not returned
FetchCatchFallsThrough(c) ==
  /\ pc' = [pc EXCEPT ![c] = "enrich"]
  /\ UNCHANGED <<rawEvents, resOk, disk, wbuf>>

\* catch (err) { console.error('Failed to fetch 19hz:', ...); return; }
FetchCatch(c) ==
  /\ pc' = [pc EXCEPT ![c] = "fetchFailed"]
  /\ UNCHANGED <<rawEvents, resOk, disk, wbuf>>

\* fetch or res.text() rejects
FetchThrows(c) ==
  /\ proc = "running"
  /\ ~Writing
  /\ pc[c] = "fetch"
  /\ FetchCatch(c)
  /\ Returns(c)
  /\ UNCHANGED <<started, now, proc>>
  /\ UNCHANGED readerVars
  /\ UNCHANGED offlineVars

\* NoEvents, had the empty-list check been left out
NoEventsUnchecked(raw) == FALSE

\* if (rawEvents.length === 0)
NoEvents(raw) == Len(raw) = 0

\* fetch resolves to res: the body is parsed whatever res.ok is
FetchReturns(c, res) ==
  /\ proc = "running"
  /\ ~Writing
  /\ pc[c] = "fetch"
  /\ LET raw == Parsed[res.body]
     IN  IF NoEvents(raw)
         THEN /\ pc' = [pc EXCEPT ![c] = "noEvents"]
              /\ Returns(c)
              /\ UNCHANGED <<rawEvents, resOk>>
         ELSE /\ pc' = [pc EXCEPT ![c] = "enrich"]
              /\ rawEvents' = [rawEvents EXCEPT ![c] = raw]
              /\ resOk' = [resOk EXCEPT ![c] = res.ok]
              /\ UNCHANGED cronScheduled
  /\ UNCHANGED <<started, now, proc, disk, wbuf>>
  /\ UNCHANGED readerVars
  /\ UNCHANGED offlineVars

\* catch (err) { console.error('Claude enrichment failed:', ...); return; }
EnrichFails(c, reply) ==
  /\ proc = "running"
  /\ ~Writing
  /\ pc[c] = "enrich"
  /\ enrichThrows(reply)
  /\ pc' = [pc EXCEPT ![c] = "enrichFailed"]
  /\ Drop(c)
  /\ Returns(c)
  /\ UNCHANGED <<started, now, proc, disk, wbuf>>
  /\ UNCHANGED readerVars
  /\ UNCHANGED offlineVars

\* enrichWithClaude returns a value and the merge reads enriched[i] of it,
\* outside any try: a TypeError rejects the promise refresh returned.  Nothing
\* handles that rejection; the boot callback never reaches cron.schedule, and
\* the process ends or goes on as the runtime treats unhandled rejections.
MergeThrows(c, reply, after) ==
  /\ proc = "running"
  /\ ~Writing
  /\ pc[c] = "enrich"
  /\ ~enrichThrows(reply)
  /\ IndexThrows(enrichValue(reply))
  /\ pc' = [pc EXCEPT ![c] = "threw"]
  /\ Drop(c)
  /\ proc' = after
  /\ UNCHANGED <<started, now, cronScheduled, disk, wbuf>>
  /\ UNCHANGED readerVars
  /\ UNCHANGED offlineVars

\* enrichWithClaude returns a value, the merge is built and writeFileSync
\* opens events.json for writing, which creates or truncates it
EnrichReturns(c, reply) ==
  /\ proc = "running"
  /\ ~Writing
  /\ pc[c] = "enrich"
  /\ ~enrichThrows(reply)
  /\ ~IndexThrows(enrichValue(reply))
  /\ pc' = [pc EXCEPT ![c] = "write"]
  /\ wbuf' = [raw |-> rawEvents[c],
              enriched |-> enrichValue(reply),
              resOk |-> resOk[c],
              updatedAt |-> now,
              events |-> merge(rawEvents[c], enrichValue(reply))]
  /\ disk' = [exists |-> TRUE, bytes |-> <<>>]
  /\ UNCHANGED <<rawEvents, resOk, started, now, cronScheduled, proc>>
  /\ UNCHANGED readerVars
  /\ UNCHANGED offlineVars

\* writeFileSync writes the document and returns; refresh logs and returns
WriteCompletes(c) ==
  /\ proc = "running"
  /\ pc[c] = "write"
  /\ disk' = [exists |-> TRUE, bytes |-> Serialize(wbuf.updatedAt, wbuf.events)]
  /\ wbuf' = None
  /\ pc' = [pc EXCEPT ![c] = "written"]
  /\ Drop(c)
  /\ Returns(c)
  /\ UNCHANGED <<started, now, proc>>
  /\ UNCHANGED readerVars
  /\ UNCHANGED offlineVars

Next ==
  \/ Boot
  \/ CronTick
  \/ \E c \in Cycles : FetchThrows(c)
  \/ \E c \in Cycles, res \in Responses : FetchReturns(c, res)
  \/ \E c \in Cycles, reply \in ReplySamples : EnrichFails(c, reply)
  \/ \E c \in Cycles, reply \in ReplySamples : MergeThrows(c, reply, "crashed")
  \/ \E c \in Cycles, reply \in ReplySamples : MergeThrows(c, reply, "running")
  \/ \E c \in Cycles, reply \in ReplySamples : EnrichReturns(c, reply)
  \/ \E c \in Cycles : WriteCompletes(c)

Spec == Init /\ [][Next]_vars

\* ------------------------------------------------------ static serving

\* express.static answers GET /events.json in two file-system requests that
\* run off the main thread: a stat, whose size becomes the Content-Length and
\* the end of the range to stream, and then the read of that range.  Either
\* can fall before, inside or after a writeFileSync.
ReaderStat ==
  /\ proc = "running"
  /\ reader.pc = "idle"
  /\ IF disk.exists
     THEN /\ reader' = [pc |-> "opened", size |-> Len(disk.bytes)]
          /\ served' = None
     ELSE /\ reader' = reader
          /\ served' = None
  /\ UNCHANGED <<pc, rawEvents, resOk, started, now, cronScheduled, proc, disk, wbuf>>
  /\ UNCHANGED offlineVars

ReaderRead ==
  /\ proc = "running"
  /\ reader.pc = "opened"
  /\ served' = [bytes |-> SubSeq(disk.bytes, 1,
                                 IF reader.size < Len(disk.bytes)
                                 THEN reader.size ELSE Len(disk.bytes))]
  /\ reader' = [pc |-> "idle", size |-> 0]
  /\ UNCHANGED <<pc, rawEvents, resOk, started, now, cronScheduled, proc, disk, wbuf>>
  /\ UNCHANGED offlineVars

\* the pipeline together with a reader, on the inputs that lead to a write
ServeResponses == {r \in Responses : r.ok /\ Parsed[r.body] # <<>>}
ServeReplies ==
  {ApiError, Message(<<<<JsonText(JNull)>>>>),
   Message(<<<<JsonText(JArr(<<ItemGood, ItemSolo>>))>>>>)}

NextServe ==
  \/ Boot
  \/ CronTick
  \/ \E c \in Cycles : FetchThrows(c)
  \/ \E c \in Cycles, res \in ServeResponses : FetchReturns(c, res)
  \/ \E c \in Cycles, reply \in ServeReplies : EnrichFails(c, reply)
  \/ \E c \in Cycles, reply \in ServeReplies : MergeThrows(c, reply, "crashed")
  \/ \E c \in Cycles, reply \in ServeReplies : MergeThrows(c, reply, "running")
  \/ \E c \in Cycles, reply \in ServeReplies : EnrichReturns(c, reply)
  \/ \E c \in Cycles : WriteCompletes(c)
  \/ ReaderStat
  \/ ReaderRead

SpecServe == Init /\ [][NextServe]_vars

\* ------------------------------------------- single calls of the parser

\* The parser functions are also run on their own, one call on one input.
\* The input is described by its parts, and the text the function gets is
\* written out from them.

\* String(n) for an integer n >= 0
RECURSIVE String(_)
String(n) ==
  IF n < 10 THEN <<DigitChars[n + 1]>>
  ELSE String(n \div 10) \o <<DigitChars[(n % 10) + 1]>>

\* the largest hour number written in a time text
MaxHour == 24

\* the meridiem as listings write it
MeridiemText(pm, style) ==
  CASE style = "lower" -> (IF pm THEN <<"p","m">> ELSE <<"a","m">>)
    [] style = "upper" -> (IF pm THEN <<"P","M">> ELSE <<"A","M">>)
    [] style = "mixed" -> (IF pm THEN <<"P","m">> ELSE <<"A","m">>)

\* date cells with a time text "(<hour>[:30]<am|pm>[-<end>])"
TimedInputs ==
  [k : {"timed"},
   hour : 0..MaxHour,
   mins : {<<>>, <<":","3","0">>},
   pm : BOOLEAN,
   style : {"lower", "upper", "mixed"},
   tail : {<<>>, <<"-","5","a","m">>, <<"-","1","1","p","m">>}]

\* date cells without a time text, or with one that does not start with an
\* hour and a meridiem
UntimedInputs ==
  [k : {"untimed"},
   cell : { <<"F","r","i",":"," ","M","a","r"," ","2","7">>,
            <<"F","r","i",":"," ","M","a","r"," ","2","7"," ","(",")">>,
            <<"F","r","i",":"," ","M","a","r"," ","2","7"," ","(","T","B","A",")">>,
            <<"F","r","i",":"," ","M","a","r"," ","2","7"," ","(","n","o","o","n","-","5","a","m",")">>,
            <<"F","r","i",":"," ","M","a","r"," ","2","7"," ","("," ","9","p","m","-","5","a","m",")">> }]

TimeTextOf(a) ==
  String(a.hour) \o a.mins \o MeridiemText(a.pm, a.style) \o a.tail

DateCellOf(a) ==
  IF a.k = "timed"
  THEN <<"F","r","i",":"," ","M","a","r"," ","2","7"," ","(">> \o TimeTextOf(a) \o <<")">>
  ELSE a.cell

\* a four-cell row of the listing with the given date cell
ListingRow(dateCell) ==
  [cells |-> <<dateCell,
               <<"H","e","a","d","l","i","n","e","r"," ","@"," ","C","l","u","b"," ","S","p","a","c","e"," ","(","D","o","w","n","t","o","w","n",")"," ","t","e","c","h","n","o">>,
               <<"$","2","0">>,
               <<"2","1","+">> >>,
   href |-> <<>>]

InitHour ==
  /\ ServerInit
  /\ seed = None
  /\ arg \in TimedInputs \cup UntimedInputs
  /\ result = None

\* parseEvents on a page of one row
ParseHour ==
  /\ arg.k \in {"timed", "untimed"}
  /\ result = None
  /\ result' = [v |-> parseEvents(<<ListingRow(DateCellOf(arg))>>)]
  /\ UNCHANGED <<seed, arg>>
  /\ UNCHANGED serverVars

NextHour == ParseHour

SpecHour == InitHour /\ [][NextHour]_vars

\* two rows of one day: every pair of plain time texts and of a date cell
\* that has none
DayTimes ==
  {t \in TimedInputs : t.mins = <<>> /\ t.style = "lower" /\ t.tail = <<>>}
  \cup [k : {"untimed"}, cell : {<<"F","r","i",":"," ","M","a","r"," ","2","7">>}]

DayInputs == [k : {"day"}, first : DayTimes, second : DayTimes]

InitDay ==
  /\ ServerInit
  /\ seed = None
  /\ arg \in DayInputs
  /\ result = None

\* parseEvents on a page of two rows
ParseDay ==
  /\ arg.k = "day"
  /\ result = None
  /\ result' = [v |-> parseEvents(<<ListingRow(DateCellOf(arg.first)),
                                    ListingRow(DateCellOf(arg.second))>>)]
  /\ UNCHANGED <<seed, arg>>
  /\ UNCHANGED serverVars

NextDay == ParseDay

SpecDay == InitDay /\ [][NextDay]_vars

\* the largest day number written in a date cell
MaxDay == 32

\* rows whose date cell reads "Wed: <Mon> <day> (9pm-2am)", of three or four
\* cells
DatedInputs == [k : {"dated"}, month : 1..12, day : 0..MaxDay, cells : {3, 4}]

\* rows whose date cell has no month name followed by whitespace and digits
UndatedInputs ==
  [k : {"undated"},
   cell : { <<>>,
            <<"T","B","A">>,
            <<"W","e","d",":"," ","2","7"," ","M","a","r"," ","(","9","p","m","-","2","a","m",")">>,
            <<"W","e","d",":"," ","M","a","r","c","h"," ","2","7"," ","(","9","p","m","-","2","a","m",")">>,
            <<"W","e","d",":"," ","M","a","r","2","7"," ","(","9","p","m","-","2","a","m",")">>,
            <<"W","e","d",":"," ","m","a","r"," ","2","7"," ","(","9","p","m","-","2","a","m",")">> },
   cells : {4}]

WindowRowOf(a) ==
  LET dateCell ==
        IF a.k = "dated"
        THEN <<"W","e","d",":"," ">> \o MonthNames[a.month] \o <<" ">>
             \o String(a.day) \o <<" ","(","9","p","m","-","2","a","m",")">>
        ELSE a.cell
      row == ListingRow(dateCell)
  IN  [row EXCEPT !.cells = SubSeq(row.cells, 1, a.cells)]

InitWindow ==
  /\ ServerInit
  /\ seed = None
  /\ arg \in DatedInputs \cup UndatedInputs
  /\ result = None

\* parseEvents on a page of one row
ParseWindow ==
  /\ arg.k \in {"dated", "undated"}
  /\ result = None
  /\ result' = [v |-> parseEvents(<<WindowRowOf(arg)>>)]
  /\ UNCHANGED <<seed, arg>>
  /\ UNCHANGED serverVars

NextWindow == ParseWindow

SpecWindow == InitWindow /\ [][NextWindow]_vars

\* price texts: up to MaxPieces pieces written one after the other
MaxPieces == 3

PricePieces ==
  { <<" ">>, <<"$">>, <<"7">>, <<"$","4","5">>, <<"$","6","0">>,
    <<" ","a","d","v"," ","/"," ">>, <<"F","R","e","e">>, <<"f","r">>, <<"e","e">> }

PriceInputs ==
  [k : {"price"},
   pieces : UNION {[1..n -> PricePieces] : n \in 0..MaxPieces}]

RECURSIVE Concat(_)
Concat(pieces) ==
  IF pieces = <<>> THEN <<>> ELSE Head(pieces) \o Concat(Tail(pieces))

InitPrice ==
  /\ ServerInit
  /\ seed = None
  /\ arg \in PriceInputs
  /\ result = None

CallParsePrice ==
  /\ arg.k = "price"
  /\ result = None
  /\ result' = [v |-> parsePrice(Concat(arg.pieces))]
  /\ UNCHANGED <<seed, arg>>
  /\ UNCHANGED serverVars

NextPrice == CallParsePrice

SpecPrice == InitPrice /\ [][NextPrice]_vars

\* description cells: up to MaxPieces pieces written one after the other
TitlePieces ==
  { <<"U","l","t","r","a">>, <<" ">>, <<"@">>, <<" ","@"," ">>,
    <<"S","e","t"," ","@"," ","C","l","u","b"," ","(","M","i","a","m","i",")"," ","h","o","u","s","e">> }

TitleInputs ==
  [k : {"title"},
   pieces : UNION {[1..n -> TitlePieces] : n \in 0..MaxPieces}]

TitleRowOf(a) ==
  LET row == ListingRow(<<"F","r","i",":"," ","M","a","r"," ","2","7"," ","(","1","0","p","m","-","5","a","m",")">>)
  IN  [row EXCEPT !.cells[2] = Concat(a.pieces)]

InitTitle ==
  /\ ServerInit
  /\ seed = None
  /\ arg \in TitleInputs
  /\ result = None

\* parseEvents on a page of one row
ParseTitle ==
  /\ arg.k = "title"
  /\ result = None
  /\ result' = [v |-> parseEvents(<<TitleRowOf(arg)>>)]
  /\ UNCHANGED <<seed, arg>>
  /\ UNCHANGED serverVars

NextTitle == ParseTitle

SpecTitle == InitTitle /\ [][NextTitle]_vars

\* ---------------------------------------------------- the seed script

\* `const BATCH_SIZE = 50`: the script sends the records to the enrichment in
\* chunks of this many.  The model runs the same loop with a small chunk
\* size, and pages of up to MaxSeedRows rows, so that a run has several
\* chunks, the last one short.
BATCH_SIZE == 2
MaxSeedRows == 5

\* row j of the page: "Party <j> @ Club Space (Downtown) techno"
SeedRow(j) ==
  LET row == ListingRow(<<"F","r","i",":"," ","M","a","r"," ","2","7"," ","(","1","0","p","m","-","5","a","m",")">>)
  IN  [row EXCEPT !.cells[2] =
         <<"P","a","r","t","y"," ">> \o String(j)
         \o <<" ","@"," ","C","l","u","b"," ","S","p","a","c","e"," ","(","D","o","w","n","t","o","w","n",")"," ","t","e","c","h","n","o">>]

SeedBodies == {[j \in 1..n |-> SeedRow(j)] : n \in 0..MaxSeedRows}

\* item j of the answer to chunk c, named "<c>-<j>"
ChunkItem(c, j) ==
  JObj(JStr(String(c) \o <<"-">> \o String(j)), JStr(<<>>), JStr(<<"p","o","o","l">>))

\* replies to chunk c of k records: a rejection, prose, an array of one item
\* less, of as many items and of one item more than records sent, a string,
\* an object and null
SeedReplies(c, k) ==
  {ApiError, Message(<< <<Prose>> >>)}
  \cup {Message(<< <<JsonText(JArr([j \in 1..n |-> ChunkItem(c, j - 1)]))>> >>) :
          n \in {k - 1, k, k + 1} \cap Nat}
  \cup {Message(<< <<JsonText(v)>> >>) : v \in {JStr(<<"o","k">>), ItemGood, JNull}}

\* enrichBatch has the body of enrichWithClaude
enrichBatchThrows(reply) == enrichThrows(reply)
enrichBatchValue(reply) == enrichValue(reply)

\* allEnriched.push(...enriched): the spread iterates an array or a string
\* and throws a TypeError on anything else
SpreadThrows(enriched) == enriched.k \notin {"array", "string"}
SpreadItems(enriched) ==
  IF enriched.k = "array" THEN enriched.items
  ELSE [i \in 1..Len(enriched.s) |-> JStr(<<enriched.s[i]>>)]

\* one turn of the loop throws: in enrichBatch, or in the spread
ChunkThrows(reply) ==
  IF enrichBatchThrows(reply) THEN TRUE
  ELSE SpreadThrows(enrichBatchValue(reply))

\* raw.slice(i, i + BATCH_SIZE), i counted from 0
slice(raw, i) ==
  SubSeq(raw, i + 1, IF i + BATCH_SIZE < Len(raw) THEN i + BATCH_SIZE ELSE Len(raw))

\* raw.map((r, i) => ...) of the script: record i with allEnriched[i]
assemble(raw, allEnriched) == merge(raw, JArr(allEnriched))

\* the loop test `i < raw.length`: the next enrichBatch call, or the rest of
\* run up to console.log(JSON.stringify(events, null, 2))
LoopTest(raw, i, allEnriched, got) ==
  IF i < Len(raw)
  THEN [pc |-> "enrich", raw |-> raw, i |-> i, allEnriched |-> allEnriched,
        got |-> got, out |-> None]
  ELSE [pc |-> "done", raw |-> raw, i |-> i, allEnriched |-> allEnriched,
        got |-> got, out |-> [events |-> assemble(raw, allEnriched)]]

\* run().catch(err => { console.error(...); process.exit(1) })
Exit1 == [seed EXCEPT !.pc = "failed"]

InitSeed ==
  /\ ServerInit
  /\ seed = [pc |-> "fetch", raw |-> <<>>, i |-> 0, allEnriched |-> <<>>,
             got |-> <<>>, out |-> None]
  /\ arg = None
  /\ result = None

\* fetch or res.text() rejects
SeedFetchThrows ==
  /\ seed.pc = "fetch"
  /\ seed' = Exit1
  /\ UNCHANGED <<arg, result>>
  /\ UNCHANGED serverVars

\* the page arrives and is parsed; res.ok is not looked at
SeedFetchReturns(body) ==
  /\ seed.pc = "fetch"
  /\ seed' = LoopTest(parseEvents(body), 0, <<>>, <<>>)
  /\ UNCHANGED <<arg, result>>
  /\ UNCHANGED serverVars

\* SeedChunkFails, had the loop caught the failure of a chunk and gone on
SeedChunkFailsSkipped(reply) ==
  /\ seed.pc = "enrich"
  /\ ChunkThrows(reply)
  /\ seed' = LoopTest(seed.raw, seed.i + BATCH_SIZE, seed.allEnriched, seed.got)
  /\ UNCHANGED <<arg, result>>
  /\ UNCHANGED serverVars

\* enrichBatch rejects, or the spread of what it returned throws
SeedChunkFails(reply) ==
  /\ seed.pc = "enrich"
  /\ ChunkThrows(reply)
  /\ seed' = Exit1
  /\ UNCHANGED <<arg, result>>
  /\ UNCHANGED serverVars

\* enrichBatch returns, its items are pushed and the loop goes round
SeedChunkReturns(reply) ==
  /\ seed.pc = "enrich"
  /\ ~ChunkThrows(reply)
  /\ seed' = LoopTest(seed.raw, seed.i + BATCH_SIZE,
                      seed.allEnriched \o SpreadItems(enrichBatchValue(reply)),
                      Append(seed.got, enrichBatchValue(reply)))
  /\ UNCHANGED <<arg, result>>
  /\ UNCHANGED serverVars

NextSeed ==
  \/ SeedFetchThrows
  \/ \E body \in SeedBodies : SeedFetchReturns(body)
  \/ \E reply \in SeedReplies(seed.i \div BATCH_SIZE, Len(slice(seed.raw, seed.i))) :
       SeedChunkFails(reply)
  \/ \E reply \in SeedReplies(seed.i \div BATCH_SIZE, Len(slice(seed.raw, seed.i))) :
       SeedChunkReturns(reply)

SpecSeed == InitSeed /\ [][NextSeed]_vars

\* ------------------------------------------------------------ claims

\* const VALID_TYPES = new Set(['pool', 'outdoor', 'night', 'festival', 'cruise'])
VALID_TYPES ==
  { <<"p","o","o","l">>,
    <<"o","u","t","d","o","o","r">>,
    night,
    <<"f","e","s","t","i","v","a","l">>,
    <<"c","r","u","i","s","e">> }

\* the checks of the validation script on one enrichment item
ValidName(v) == v.k = "string" /\ v.s # <<>>
ValidArtists(v) == v.k = "string"
ValidType(v) == v.k = "string" /\ v.s \in VALID_TYPES

\* a complete document: opened, stamped and closed
IsDocument(bytes) ==
  /\ Len(bytes) >= 2
  /\ bytes[1] = [t |-> "{"]
  /\ DOMAIN bytes[2] = {"updatedAt"}
  /\ bytes[Len(bytes)] = [t |-> "}"]

EventsOnDisk == {disk.bytes[i].event : i \in {j \in 1..Len(disk.bytes) : DOMAIN disk.bytes[j] = {"event"}}}

\* C1: when the source fetch of a refresh call fails, the call ends without
\* writing: the step that ends it leaves events.json, and whatever earlier
\* calls persisted in it, exactly as it was.
C1_FetchFailureLeavesArtifact ==
  [][\A c \in Cycles :
       (pc[c] = "fetch" /\ pc'[c] = "fetchFailed") => (disk' = disk /\ wbuf' = wbuf)]_vars

\* a call has failed at the fetch while an earlier call's document is on disk
C1_Witness ==
  \E c \in Cycles : pc[c] = "fetchFailed" /\ disk.exists /\ IsDocument(disk.bytes)

\* C2: when the enrichment step fails (network error, malformed response,
\* valid JSON that is not an array, JSON parse failure), nothing is written:
\* every write is made from an enrichment response that is a JSON array.
C2_EnrichFailureNeverWritten ==
  wbuf # None => wbuf.enriched.k = "array"

\* C3: a call whose parse returned no record never reaches the enrichment
\* call or a write, so no write carries an empty batch and the document on
\* disk, once there is one, always has at least one event.
C3_EmptyParseNeverWritten ==
  /\ \A c \in Cycles : pc[c] \in {"enrich", "write"} => rawEvents[c] # <<>>
  /\ wbuf # None => (wbuf.raw # <<>> /\ wbuf.events # <<>>)
  /\ (disk.exists /\ ~Writing) => (IsDocument(disk.bytes) /\ EventsOnDisk # {})

\* a call has ended on an empty parse while a non-empty document is on disk
C3_Witness ==
  \E c \in Cycles : pc[c] = "noEvents" /\ disk.exists /\ EventsOnDisk # {}

\* C4: at most one refresh call is in flight at any time.
C4_OneCycleInFlight ==
  Cardinality({c \in Cycles : pc[c] \in InFlight}) <= 1

\* C5: whatever a refresh call ends in, the process keeps running and the
\* trigger loop is in place: once the startup call is over, the cron job is
\* scheduled.
C5_TriggerLoopSurvives ==
  /\ proc = "running"
  /\ pc[1] \in Ended => cronScheduled

\* C6: an enrichment item whose type is outside the five values gives the
\* merged event at that index the type "night", and so every event written
\* and every event on disk has a type among the five.
C6_TypeInClosedSet ==
  /\ wbuf # None =>
       \A i \in 1..Len(wbuf.raw) :
         LET item == Index(wbuf.enriched, i - 1)
         IN  /\ (item.k = "object" /\ ~ValidType(item.type))
                  => wbuf.events[i].type = JStr(night)
             /\ ValidType(wbuf.events[i].type)
  /\ \A e \in EventsOnDisk : ValidType(e.type)

\* C7: in the merge each field of each index stands on its own: name is the
\* enriched name when that is a non-empty string and the raw titlePart
\* otherwise, artists is the enriched artists when that is a string and ''
\* otherwise, type is the enriched type when that is one of the five values
\* and "night" otherwise.
C7_FieldsFallBackIndependently ==
  wbuf # None =>
    \A i \in 1..Len(wbuf.raw) :
      LET item == Index(wbuf.enriched, i - 1)
          e == wbuf.events[i]
      IN  /\ e.name = IF ValidName(OptField(item, "name"))
                      THEN item.name ELSE JStr(wbuf.raw[i].titlePart)
          /\ e.artists = IF ValidArtists(OptField(item, "artists"))
                         THEN item.artists ELSE JStr(<<>>)
          /\ e.type = IF ValidType(OptField(item, "type"))
                      THEN item.type ELSE JStr(night)

\* C8: the list a refresh call writes has one event per raw record, in the
\* order of the raw records; event i carries the parsed fields of raw record
\* i and the fields of enrichment item i wherever that item supplies them.
C8_MergeIsPositional ==
  wbuf # None =>
    /\ Len(wbuf.events) = Len(wbuf.raw)
    /\ \A i \in 1..Len(wbuf.raw) :
         LET item == Index(wbuf.enriched, i - 1)
             e == wbuf.events[i]
             r == wbuf.raw[i]
         IN  /\ e.day = r.day
             /\ e.venue = r.venue
             /\ e.area = r.area
             /\ e.startHour = r.startHour
             /\ e.timeDisplay = r.timeRaw
             /\ e.genres = r.genres
             /\ e.age = r.age
             /\ e.link = r.link
             /\ Truthy(OptField(item, "name")) => e.name = item.name
             /\ Truthy(OptField(item, "artists")) => e.artists = item.artists
             /\ Truthy(OptField(item, "type")) => e.type = item.type

\* two different raw records are being written with two different items
C8_Witness ==
  /\ wbuf # None
  /\ Len(wbuf.raw) = 2
  /\ wbuf.raw[1] # wbuf.raw[2]
  /\ wbuf.enriched = JArr(<<ItemGood, ItemSolo>>)

\* C9: whoever reads events.json gets a complete batch, the previous one or
\* the new one, never an empty or cut-off document.
C9_ReaderSeesCompleteBatch ==
  served # None => IsDocument(served.bytes)

\* C10: a source response that is not 2xx ends the call at the fetch: no
\* call goes on to enrich or write from such a response.
C10_Non2xxAborts ==
  /\ \A c \in Cycles : pc[c] \in {"enrich", "write"} => resOk[c]
  /\ wbuf # None => wbuf.resOk

\* C11: when the enrichment API is unavailable during a refresh call, the
\* records the call parsed are still published, each with type "night" and
\* its raw titlePart as name: the step that ends the enrichment in a failure
\* starts the write of exactly those events.
C11_OutageStillPublishes ==
  [][\A c \in Cycles :
       (pc[c] = "enrich" /\ pc'[c] = "enrichFailed") =>
         /\ wbuf' # None
         /\ Len(wbuf'.events) = Len(rawEvents[c])
         /\ \A i \in 1..Len(rawEvents[c]) :
              /\ wbuf'.events[i].type = JStr(night)
              /\ wbuf'.events[i].name = JStr(rawEvents[c][i].titlePart)]_vars

C13_StartHourInRange ==
  (result # None /\ arg.k \in {"timed", "untimed"}) =>
    \A i \in 1..Len(result.v) : result.v[i].startHour \in 0..30

C15_OnlyWindowDates ==
  (result # None /\ arg.k \in {"dated", "undated"}) =>
    LET DaysIn == <<31, 28, 31, 30, 31, 30, 31, 31, 30, 31, 30, 31>>
        Key(m, d) == <<"2","0","2","6","-">> \o padStart2(m) \o <<"-">> \o padStart2(d)
        WindowKeys == {Key(3, d) : d \in 18..31} \cup {Key(4, 1)}
        r == result.v
    IN  /\ Len(r) <= 1
        /\ \A i \in 1..Len(r) : r[i].day \in WindowKeys
        /\ arg.k = "undated" => r = <<>>
        /\ (arg.k = "dated" /\ arg.day \in 1..DaysIn[arg.month]) =>
             IF arg.cells = 4 /\ Key(arg.month, arg.day) \in WindowKeys
             THEN Len(r) = 1 /\ r[1].day = Key(arg.month, arg.day)
             ELSE r = <<>>

\* the row dated Apr 1, the last day of the window, has been returned
C15_Witness ==
  /\ result # None
  /\ arg.k = "dated" /\ arg.month = 4 /\ arg.day = 1 /\ arg.cells = 4
  /\ Len(result.v) = 1
  /\ result.v[1].day = <<"2","0","2","6","-","0","4","-","0","1">>

\* C16: parsePrice returns a non-negative integer: 0 when the text is empty
\* or all whitespace or has "free" in it anywhere, in any letter case;
\* otherwise the number written by the digits after the first "$" that a
\* digit follows; and 0 when there is no such "$".
C16_PriceOfText ==
  (result # None /\ arg.k = "price") =>
    LET t == Concat(arg.pieces)
        blank == \A i \in 1..Len(t) : t[i] = " "
        free == \E p \in 1..(Len(t) - 3) :
                  /\ t[p] \in {"f", "F"}
                  /\ t[p + 1] \in {"r", "R"}
                  /\ t[p + 2] \in {"e", "E"}
                  /\ t[p + 3] \in {"e", "E"}
        amounts == {p \in 1..(Len(t) - 1) : t[p] = "$" /\ IsDigit(t[p + 1])}
        first == CHOOSE p \in amounts : \A q \in amounts : p <= q
        last == CHOOSE e \in (first + 1)..Len(t) :
                  /\ \A i \in (first + 1)..e : IsDigit(t[i])
                  /\ (e = Len(t) \/ ~IsDigit(t[e + 1]))
    IN  /\ result.v \in Nat
        /\ result.v =
             IF blank \/ free \/ amounts = {} THEN 0
             ELSE parseInt(SubSeq(t, first + 1, last))

\* "$45 adv / $60" has been priced at 45
C16_Witness ==
  /\ result # None
  /\ arg.k = "price"
  /\ arg.pieces = << <<"$","4","5">>, <<" ","a","d","v"," ","/"," ">>, <<"$","6","0">> >>
  /\ result.v = 45

\* C17: the description cell is split at the first " @ ": titlePart is the
\* text before it; when the cell has no " @ ", titlePart is the whole
\* trimmed cell, venue and area are empty strings and genres is the empty
\* list.
C17_SplitAtFirstSeparator ==
  (result # None /\ arg.k = "title") =>
    LET cell == trim(Concat(arg.pieces))
        seps == {p \in 1..(Len(cell) - 2) :
                   cell[p] = " " /\ cell[p + 1] = "@" /\ cell[p + 2] = " "}
        first == CHOOSE p \in seps : \A q \in seps : p <= q
        r == result.v
    IN  /\ Len(r) = 1
        /\ IF seps = {}
           THEN /\ r[1].titlePart = cell
                /\ r[1].venue = <<>>
                /\ r[1].area = <<>>
                /\ r[1].genres = <<>>
           ELSE r[1].titlePart = trim(SubSeq(cell, 1, first - 1))

\* "Ultra @ Set @ Club (Miami) house", with two separators, has been split
\* at the first one
C17_Witness ==
  /\ result # None
  /\ arg.k = "title"
  /\ Len(arg.pieces) = 3
  /\ arg.pieces[1] = <<"U","l","t","r","a">>
  /\ arg.pieces[2] = <<" ","@"," ">>
  /\ Len(arg.pieces[3]) > 3
  /\ result.v[1].titlePart = <<"U","l","t","r","a">>

\* C18: in the chunked run the answers to the chunks are put together in the
\* order of the chunks, and a failure of any chunk ends the whole run with
\* no output: output is only produced when every chunk has been answered,
\* never from the chunks enriched before a failure.
C18_ChunksInOrderAllOrNothing ==
  (seed # None /\ seed.pc # "fetch") =>
    LET chunks == (Len(seed.raw) + BATCH_SIZE - 1) \div BATCH_SIZE
    IN  /\ seed.allEnriched =
             Concat([m \in 1..Len(seed.got) |-> SpreadItems(seed.got[m])])
        /\ Len(seed.got) <= chunks
        /\ seed.pc = "failed" => seed.out = None
        /\ seed.pc = "enrich" => seed.out = None
        /\ seed.out # None => (seed.pc = "done" /\ Len(seed.got) = chunks)

\* the run has failed at its second chunk, after the first was enriched
C18_Witness ==
  /\ seed # None
  /\ seed.pc = "failed"
  /\ Len(seed.got) = 1
  /\ seed.allEnriched # <<>>
  /\ Len(seed.raw) > BATCH_SIZE
  /\ seed.out = None

C20_ChunkAlignment ==
  (seed # None /\ seed.pc = "done") =>
    \A i \in 0..(Len(seed.raw) - 1) :
      seed.out.events[i + 1] =
        mergeOne(seed.raw[i + 1],
                 Index(seed.got[(i \div BATCH_SIZE) + 1], i % BATCH_SIZE))

====
